---- MODULE Spec2Model ----
(***************************************************************************)
(* Alert matching and notification fan-out of the tender portal backend.   *)
(*                                                                         *)
(*   AlertConfiguration.shouldTriggerForTender   the predicate evaluator   *)
(*   AlertConfiguration.find*Alerts / updateStats / incrementEmailSent     *)
(*   AlertProcessingService.process*             the three run modes       *)
(*   EmailService.send*                          the delivery transport    *)
(*   SchedulerService                            timer and manual triggers *)
(*   AlertProcessingService.processQueue         the processing queue      *)
(*   createAlert                                 the per-plan alert limit  *)
(*                                                                         *)
(* Text is a sequence of one-character strings.  Time is counted in ticks, *)
(* TicksPerDay ticks to a day.  A JavaScript value that may be undefined   *)
(* is modelled by a marker of the same TLA+ type (Undefined, NoText,       *)
(* NoNumber) so that comparisons stay well-typed.                          *)
(***************************************************************************)
EXTENDS Integers, Sequences, FiniteSets, TLC

VARIABLES
    now,        \* the wall clock, in ticks
    users,      \* the User collection: id -> [exists, email, emailAlerts]
    alerts,     \* the AlertConfiguration collection: id -> document (persisted)
    tenders,    \* the Tender collection: id -> document
    runs,       \* the executions of process* and cleanupOldData started so far, in order
    jobs,       \* SchedulerService.jobs: job name -> [state, timezone, timers]
    lastCall,   \* the latest management call on the scheduler: [op, name, result]
    isInitialized,      \* SchedulerService.isInitialized
    emailInitialized,   \* EmailService.initialized (the transporter exists)
    evalIn,     \* predicate evaluator harness: the <<configuration, record>> under test
    evalOut,    \* predicate evaluator harness: "none", "true", "false" or "throw"
    processingQueue,    \* AlertProcessingService.processingQueue: tender ids, oldest first
    isProcessing,       \* AlertProcessingService.isProcessing
    queueLoop,  \* processQueue: [pc, current] and the log [enqueued, shifted] of the queue
    creation    \* one createAlert request: [plan, emailAlerts, owned, response]

queueVars == <<processingQueue, isProcessing, queueLoop>>

vars == <<now, users, alerts, tenders, runs, jobs, lastCall, isInitialized,
          emailInitialized, evalIn, evalOut, queueVars, creation>>

(***************************************************************************)
(* Bounds of the model.                                                    *)
(***************************************************************************)
MaxConfigs == 2
MaxTenders == 2
MaxRuns == 2
TicksPerDay == 2

ConfigIds == 1..MaxConfigs
TenderIds == 1..MaxTenders
RunIds == 1..MaxRuns

(***************************************************************************)
(* JavaScript values.                                                      *)
(***************************************************************************)
Undefined == "undefined"
NoText == <<"undefined">>
NoNumber == 0 - 1

\* JavaScript truthiness of a number that may be undefined: 0 is falsy.
TruthyNumber(n) == n # NoNumber /\ n # 0

\* String.prototype.toLowerCase on the model's alphabet.
LowerChar(ch) ==
    CASE ch = "I" -> "i"
      [] ch = "T" -> "t"
      [] ch = "D" -> "d"
      [] ch = "G" -> "g"
      [] OTHER -> ch

toLowerCase(s) == [i \in 1..Len(s) |-> LowerChar(s[i])]

\* String.prototype.startsWith / endsWith / includes.
startsWith(s, p) == Len(p) <= Len(s) /\ SubSeq(s, 1, Len(p)) = p

endsWith(s, p) == Len(p) <= Len(s) /\ SubSeq(s, Len(s) - Len(p) + 1, Len(s)) = p

includes(s, p) == \E i \in 0..(Len(s) - Len(p)) : SubSeq(s, i + 1, i + Len(p)) = p

\* (x || '') for a text that may be undefined.
OrEmpty(s) == IF s = NoText \/ s = <<>> THEN <<>> ELSE s

\* Array.prototype.some over a sequence.
Some(seq, P(_)) == \E i \in 1..Len(seq) : P(seq[i])

\* Math.ceil(a / b) for b > 0.
Ceil(a, b) == IF a >= 0 THEN (a + b - 1) \div b ELSE 0 - ((0 - a) \div b)

(***************************************************************************)
(* Predicate evaluator: AlertConfiguration.shouldTriggerForTender.         *)
(* Every check yields "pass", "fail" or "throw" (a TypeError raised by a   *)
(* property read on undefined); the checks run in the order of the source  *)
(* and the first one that does not pass decides.                           *)
(***************************************************************************)

\* `${title} ${description} ${fullText}`, lower-cased part by part.
textToSearch(tender) ==
    toLowerCase(tender.title) \o <<" ">> \o toLowerCase(OrEmpty(tender.description))
        \o <<" ">> \o toLowerCase(OrEmpty(tender.fullTextMarkdown))

\* The switch on keyword.matchType.
keywordMatches(keyword, text) ==
    LET term == toLowerCase(keyword.term) IN
    CASE keyword.matchType = "exact" ->
            \/ includes(text, <<" ">> \o term \o <<" ">>)
            \/ startsWith(text, term \o <<" ">>)
            \/ endsWith(text, <<" ">> \o term)
            \/ text = term
      [] keyword.matchType = "starts_with" ->
            includes(text, <<" ">> \o term) \/ startsWith(text, term)
      [] keyword.matchType = "ends_with" ->
            includes(text, term \o <<" ">>) \/ endsWith(text, term)
      [] OTHER -> includes(text, term)

checkKeywords(alert, tender) ==
    IF Len(alert.keywords) = 0 THEN "pass"
    ELSE IF tender.title = NoText THEN "throw"
    ELSE IF Some(alert.keywords, LAMBDA k : keywordMatches(k, textToSearch(tender)))
         THEN "pass" ELSE "fail"

checkExcludeKeywords(alert, tender) ==
    IF Len(alert.excludeKeywords) = 0 THEN "pass"
    ELSE IF tender.title = NoText THEN "throw"
    ELSE IF Some(alert.excludeKeywords,
                 LAMBDA k : includes(textToSearch(tender), toLowerCase(k)))
         THEN "fail" ELSE "pass"

checkCategories(alert, tender) ==
    IF alert.categories # {} /\ tender.category \notin alert.categories
    THEN "fail" ELSE "pass"

checkProvinces(alert, tender) ==
    IF alert.provinces = {} THEN "pass"
    ELSE IF ~tender.location.present THEN "throw"
    ELSE IF tender.location.province \notin alert.provinces THEN "fail" ELSE "pass"

checkDistricts(alert, tender) ==
    IF alert.districts = {} THEN "pass"
    ELSE IF ~tender.location.present THEN "throw"
    ELSE IF tender.location.district \notin alert.districts THEN "fail" ELSE "pass"

checkCities(alert, tender) ==
    IF alert.cities = {} THEN "pass"
    ELSE IF ~tender.location.present THEN "throw"
    ELSE IF tender.location.city # Undefined /\ tender.location.city \notin alert.cities
         THEN "fail" ELSE "pass"

checkOrganizationTypes(alert, tender) ==
    IF alert.organizationTypes = {} THEN "pass"
    ELSE IF ~tender.organization.present THEN "throw"
    ELSE IF tender.organization.type \notin alert.organizationTypes THEN "fail" ELSE "pass"

checkEstimatedValue(alert, tender) ==
    IF ~(TruthyNumber(alert.min) \/ TruthyNumber(alert.max)) THEN "pass"
    ELSE IF ~TruthyNumber(tender.amount) THEN "pass"
    ELSE IF TruthyNumber(alert.min) /\ tender.amount < alert.min THEN "fail"
    ELSE IF TruthyNumber(alert.max) /\ tender.amount > alert.max THEN "fail"
    ELSE "pass"

\* Math.ceil((closingDate - now) / one day); NaN when the closing date is undefined.
daysUntilClosing(tender, clock) == Ceil(tender.dates.closing - clock, TicksPerDay)

checkDaysUntilClosing(alert, tender, clock) ==
    IF ~(TruthyNumber(alert.minDaysUntilClosing) \/ TruthyNumber(alert.maxDaysUntilClosing))
    THEN "pass"
    ELSE IF ~tender.dates.present THEN "throw"
    ELSE IF tender.dates.closing = NoNumber THEN "pass"
    ELSE IF TruthyNumber(alert.minDaysUntilClosing)
            /\ daysUntilClosing(tender, clock) < alert.minDaysUntilClosing THEN "fail"
    ELSE IF TruthyNumber(alert.maxDaysUntilClosing)
            /\ daysUntilClosing(tender, clock) > alert.maxDaysUntilClosing THEN "fail"
    ELSE "pass"

checkStatuses(alert, tender) ==
    IF alert.includedStatuses # {} /\ tender.status \notin alert.includedStatuses
    THEN "fail" ELSE "pass"

checkPriorities(alert, tender) ==
    IF alert.includedPriorities # {} /\ tender.priority \notin alert.includedPriorities
    THEN "fail" ELSE "pass"

\* The checks of shouldTriggerForTender after the isActive test, in source order.
checkChain(alert, tender, clock) ==
    << checkKeywords(alert, tender),
       checkExcludeKeywords(alert, tender),
       checkCategories(alert, tender),
       checkProvinces(alert, tender),
       checkDistricts(alert, tender),
       checkCities(alert, tender),
       checkOrganizationTypes(alert, tender),
       checkEstimatedValue(alert, tender),
       checkDaysUntilClosing(alert, tender, clock),
       checkStatuses(alert, tender),
       checkPriorities(alert, tender) >>

\* The outcome of the first check that does not pass, "pass" when all do.
FirstDecisive(chain) ==
    IF \A i \in 1..Len(chain) : chain[i] = "pass" THEN "pass"
    ELSE chain[CHOOSE i \in 1..Len(chain) :
                   /\ chain[i] # "pass"
                   /\ \A j \in 1..(i - 1) : chain[j] = "pass"]

\* Mutant of shouldTriggerForTender: the isActive test is missing.
shouldTriggerIgnoringActive(alert, tender, clock) ==
    LET d == FirstDecisive(checkChain(alert, tender, clock)) IN
    CASE d = "pass" -> "true"
      [] d = "fail" -> "false"
      [] OTHER -> "throw"

\* shouldTriggerForTender: "true", "false", or "throw" when the call raises.
shouldTriggerForTender(alert, tender, clock) ==
    IF ~alert.isActive THEN "false"
    ELSE LET d == FirstDecisive(checkChain(alert, tender, clock)) IN
         CASE d = "pass" -> "true"
           [] d = "fail" -> "false"
           [] OTHER -> "throw"

(***************************************************************************)
(* Documents.                                                              *)
(***************************************************************************)

\* The wall clock at the start of a behaviour, late enough for every past date.
NowStart == 100 * TicksPerDay

Days(n) == n * TicksPerDay

\* An AlertConfiguration document with the schema's defaults (nested paths flattened).
BlankAlert ==
    [ user |-> 1, isActive |-> TRUE,
      keywords |-> <<>>, excludeKeywords |-> <<>>,
      categories |-> {}, provinces |-> {}, districts |-> {}, cities |-> {},
      organizationTypes |-> {},
      min |-> NoNumber, max |-> NoNumber,
      minDaysUntilClosing |-> NoNumber, maxDaysUntilClosing |-> NoNumber,
      includedStatuses |-> {}, includedPriorities |-> {},
      enabled |-> TRUE, frequency |-> "immediate", customEmail |-> Undefined,
      lastSentAt |-> NoNumber, dailySummaryTime |-> "09:00",
      totalMatches |-> 0, emailsSent |-> 0,
      lastMatchedTender |-> 0, lastMatchedAt |-> NoNumber,
      updatedAt |-> NowStart - Days(8), deleted |-> FALSE ]

\* A Tender document as the create-tender validation admits it.
BlankTender ==
    [ title |-> <<"I", "T">>, description |-> <<>>, fullTextMarkdown |-> NoText,
      category |-> "it",
      location |-> [present |-> TRUE, province |-> "western", district |-> "colombo",
                    city |-> Undefined],
      organization |-> [present |-> TRUE, type |-> "government"],
      amount |-> NoNumber,
      dates |-> [present |-> TRUE, closing |-> NowStart + Days(3), published |-> NowStart],
      status |-> "published", priority |-> "medium", isActive |-> TRUE ]

\* The User collection: two entitled owners, one owner without the email-alerts
\* feature, and one reference whose user document no longer exists.
UserIds == 1..4

UserFixture ==
    [u \in UserIds |->
        CASE u = 1 -> [exists |-> TRUE, email |-> "u1@mail", emailAlerts |-> TRUE]
          [] u = 2 -> [exists |-> TRUE, email |-> "u2@mail", emailAlerts |-> TRUE]
          [] u = 3 -> [exists |-> TRUE, email |-> "u3@mail", emailAlerts |-> FALSE]
          [] OTHER -> [exists |-> FALSE, email |-> Undefined, emailAlerts |-> FALSE]]

\* Filter criteria used by the configurations of the run scenarios.
WithCategory(a) == [a EXCEPT !.categories = {"it"}]

WithKeyword(a) == [a EXCEPT !.keywords = <<[term |-> <<"i", "t">>, matchType |-> "contains"]>>]

OwnedBy(a, u) == [a EXCEPT !.user = u]

Daily(a, time) == [a EXCEPT !.frequency = "daily", !.dailySummaryTime = time]

Weekly(a, sentAt) == [a EXCEPT !.frequency = "weekly", !.lastSentAt = sentAt]

\* A configuration the owner has switched off (toggleAlertStatus).
Inactive(a) == [a EXCEPT !.isActive = FALSE]

\* Configurations of an immediate-run scenario.
ImmediateAlerts ==
    { BlankAlert,
      WithKeyword(BlankAlert),
      WithCategory(BlankAlert),
      OwnedBy(BlankAlert, 2),
      OwnedBy(BlankAlert, 3),
      Inactive(WithKeyword(BlankAlert)),
      Daily(BlankAlert, "09:00") }

\* Configurations of a daily-run scenario.
DailyAlerts ==
    { Daily(BlankAlert, "09:00"),
      Daily(WithCategory(BlankAlert), "09:00"),
      Daily(WithKeyword(BlankAlert), "09:00"),
      Daily(OwnedBy(BlankAlert, 2), "09:00"),
      Daily(OwnedBy(WithCategory(BlankAlert), 2), "09:00"),
      Daily(Inactive(WithKeyword(BlankAlert)), "09:00"),
      Daily(BlankAlert, "08:00") }

\* Configurations of a weekly-run scenario.
WeeklyAlerts ==
    { Weekly(BlankAlert, NoNumber),
      Weekly(BlankAlert, NowStart - Days(3)),
      Weekly(WithCategory(BlankAlert), NowStart - Days(7)),
      Weekly(WithKeyword(BlankAlert), NoNumber),
      Weekly(OwnedBy(BlankAlert, 2), NowStart - Days(8)),
      Weekly(Inactive(BlankAlert), NoNumber),
      Weekly(OwnedBy(WithCategory(BlankAlert), 2), NoNumber) }

\* A configuration last saved the given number of days ago.
Stale(a, days) == [a EXCEPT !.updatedAt = NowStart - Days(days)]

\* Configurations of a retention scenario: switched off 91, exactly 90 and 8
\* days ago, and in use but last saved 91 days ago.
RetentionAlerts ==
    { Stale(Inactive(BlankAlert), 91),
      Stale(Inactive(BlankAlert), 90),
      Inactive(BlankAlert),
      Stale(BlankAlert, 91),
      Stale(Daily(Inactive(BlankAlert), "09:00"), 91) }

\* Records of the run scenarios: a matching record published now; a record of
\* another category that has no title; a matching record published three days ago.
ScenarioTenders ==
    { BlankTender,
      [BlankTender EXCEPT !.title = NoText, !.category = "works"],
      [BlankTender EXCEPT !.dates.published = NowStart - Days(3)] }

(***************************************************************************)
(* Registry queries and stats writes: AlertConfiguration statics/methods.  *)
(***************************************************************************)

\* The ids of a collection in natural (insertion) order.
NaturalOrder(n) == [i \in 1..n |-> i]

findImmediateAlerts(store) ==
    SelectSeq(NaturalOrder(MaxConfigs),
              LAMBDA c : /\ ~store[c].deleted
                         /\ store[c].isActive
                         /\ store[c].enabled
                         /\ store[c].frequency = "immediate")

findDailyAlerts(store, time) ==
    SelectSeq(NaturalOrder(MaxConfigs),
              LAMBDA c : /\ ~store[c].deleted
                         /\ store[c].isActive
                         /\ store[c].enabled
                         /\ store[c].frequency = "daily"
                         /\ store[c].dailySummaryTime = time)

\* Mutant of WeeklyDue: $lt in place of $lte.
WeeklyDueStrict(lastSentAt, clock) ==
    \/ lastSentAt # NoNumber /\ lastSentAt < clock - Days(7)
    \/ lastSentAt = NoNumber

\* lastSentAt $lte one week ago, or lastSentAt absent.
WeeklyDue(lastSentAt, clock) ==
    \/ lastSentAt # NoNumber /\ lastSentAt <= clock - Days(7)
    \/ lastSentAt = NoNumber

findWeeklyAlerts(store, clock) ==
    SelectSeq(NaturalOrder(MaxConfigs),
              LAMBDA c : /\ ~store[c].deleted
                         /\ store[c].isActive
                         /\ store[c].enabled
                         /\ store[c].frequency = "weekly"
                         /\ WeeklyDue(store[c].lastSentAt, clock))

\* Mutant of updateStats: records the tender but does not count the match.
updateStatsNoCount(doc, tenderId, clock) ==
    [doc EXCEPT !.lastMatchedTender = tenderId,
                !.lastMatchedAt = clock,
                !.updatedAt = clock]

\* updateStats: the in-memory document after the increment (save() persists it).
updateStats(doc, tenderId, clock) ==
    [doc EXCEPT !.totalMatches = @ + 1,
                !.lastMatchedTender = tenderId,
                !.lastMatchedAt = clock,
                !.updatedAt = clock]

\* Mutant of incrementEmailSent: counts the send but leaves lastSentAt as it was.
incrementEmailSentNoStamp(doc, clock) ==
    [doc EXCEPT !.emailsSent = @ + 1,
                !.updatedAt = clock]

\* incrementEmailSent: the in-memory document after the increment.
incrementEmailSent(doc, clock) ==
    [doc EXCEPT !.emailsSent = @ + 1,
                !.lastSentAt = clock,
                !.updatedAt = clock]

\* save(): the persisted document takes the paths the in-memory document modified.
SaveStats(stored, doc) ==
    [stored EXCEPT !.totalMatches = doc.totalMatches,
                   !.lastMatchedTender = doc.lastMatchedTender,
                   !.lastMatchedAt = doc.lastMatchedAt,
                   !.updatedAt = doc.updatedAt]

SaveEmailSent(stored, doc) ==
    [stored EXCEPT !.emailsSent = doc.emailsSent,
                   !.lastSentAt = doc.lastSentAt,
                   !.updatedAt = doc.updatedAt]

\* The virtual effectiveEmail: customEmail || user.email.
effectiveEmail(doc, user) ==
    IF doc.customEmail # Undefined THEN doc.customEmail ELSE user.email

(***************************************************************************)
(* Helpers of AlertProcessingService.                                      *)
(***************************************************************************)

\* Tender.find({status: published, isActive, dates.published >= since})
\*   .sort({'dates.published': -1}); ties keep natural order.
RECURSIVE SortByPublishedDesc(_, _)
SortByPublishedDesc(store, ids) ==
    IF ids = {} THEN <<>>
    ELSE LET first == CHOOSE t \in ids :
                        \A o \in ids :
                            \/ store[t].dates.published > store[o].dates.published
                            \/ /\ store[t].dates.published = store[o].dates.published
                               /\ t <= o
         IN <<first>> \o SortByPublishedDesc(store, ids \ {first})

getRecentTenders(store, since) ==
    SortByPublishedDesc(store,
        { t \in TenderIds : /\ store[t].status = "published"
                            /\ store[t].isActive
                            /\ store[t].dates.published >= since })

\* The keys of the Map built by groupAlertsByUser, in insertion order.
RECURSIVE FirstOccurrences(_)
FirstOccurrences(seq) ==
    IF seq = <<>> THEN <<>>
    ELSE LET front == FirstOccurrences(SubSeq(seq, 1, Len(seq) - 1))
             last == seq[Len(seq)]
         IN IF \E i \in 1..Len(front) : front[i] = last THEN front
            ELSE Append(front, last)

\* groupAlertsByUser: one entry per owner, each with the owner's alerts in order.
groupAlertsByUser(cohort, docs) ==
    LET owners == FirstOccurrences([i \in 1..Len(cohort) |-> docs[cohort[i]].user])
    IN [g \in 1..Len(owners) |->
           [userId |-> owners[g],
            alerts |-> SelectSeq(cohort, LAMBDA c : docs[c].user = owners[g])]]

\* removeDuplicateTenders: keeps the first occurrence of every tender id.
removeDuplicateTenders(seq) == FirstOccurrences(seq)

\* Concatenation of a sequence of sequences.
RECURSIVE Flatten(_)
Flatten(seqs) ==
    IF seqs = <<>> THEN <<>>
    ELSE Flatten(SubSeq(seqs, 1, Len(seqs) - 1)) \o seqs[Len(seqs)]

\* Mutant of matchesOf: the filter keeps every candidate.
matchesOfAll(doc, candidates, store, clock) == candidates

\* tenders.filter(tender => alert.shouldTriggerForTender(tender))
matchesOf(doc, candidates, store, clock) ==
    SelectSeq(candidates, LAMBDA t : shouldTriggerForTender(doc, store[t], clock) = "true")

\* Whether that filter raises: some evaluation of the alert throws.
filterThrows(doc, candidates, store, clock) ==
    \E i \in 1..Len(candidates) :
        shouldTriggerForTender(doc, store[candidates[i]], clock) = "throw"

\* The matchingTenders of one owner: the matches of every alert, concatenated.
matchingTenders(group, docs, candidates, store, clock) ==
    Flatten([a \in 1..Len(group) |-> matchesOf(docs[group[a]], candidates, store, clock)])

\* EmailService.groupTendersByAlert, flattened into the rendered items: one
\* section per configuration, one item per tender the configuration matches.
groupTendersByAlert(unique, group, docs, store, clock) ==
    Flatten([a \in 1..Len(group) |->
               LET m == matchesOf(docs[group[a]], unique, store, clock)
               IN [k \in 1..Len(m) |-> [alert |-> group[a], tender |-> m[k]]]])

(***************************************************************************)
(* SchedulerService: the registered jobs.                                  *)
(***************************************************************************)
DailyTimes == {"08:00", "09:00", "10:00", "12:00", "18:00"}

DailyJob(time) ==
    CASE time = "08:00" -> "daily-08:00"
      [] time = "09:00" -> "daily-09:00"
      [] time = "10:00" -> "daily-10:00"
      [] time = "12:00" -> "daily-12:00"
      [] OTHER -> "daily-18:00"

JobNames == {DailyJob(t) : t \in DailyTimes} \cup {"weekly", "cleanup"}

\* One entry of this.jobs.  state is that of the task the map holds for the name
\* ("absent": no entry); timers counts the running cron tasks created for the name.
NoJob == [state |-> "absent", timezone |-> Undefined, timers |-> 0]

\* constructor(): this.jobs = new Map(); this.isInitialized = false.
NoJobs == [n \in JobNames |-> NoJob]

NoCall == [op |-> "none", name |-> Undefined, result |-> Undefined]

\* cron.schedule(expr, callback, {scheduled: false, timezone}), this.jobs.set(name, job),
\* job.start(): the map holds the new task; a task it held before keeps running.
schedule(entry) ==
    [state |-> "started", timezone |-> "Asia/Colombo", timers |-> entry.timers + 1]

\* job.stop() / job.start() on the task of an entry; both are idempotent.
stop(entry) ==
    IF entry.state = "started" THEN [entry EXCEPT !.state = "stopped", !.timers = @ - 1]
    ELSE entry

start(entry) ==
    IF entry.state = "stopped" THEN [entry EXCEPT !.state = "started", !.timers = @ + 1]
    ELSE entry

\* Mutant of initialize: the isInitialized guard is missing.
initializeUnguarded ==
    /\ jobs' = [n \in JobNames |-> schedule(jobs[n])]
    /\ isInitialized' = TRUE
    /\ lastCall' = [op |-> "initialize", name |-> Undefined, result |-> Undefined]
    /\ UNCHANGED <<now, users, alerts, tenders, runs, emailInitialized, evalIn, evalOut, queueVars, creation>>

\* initialize(): registers and starts every job, once.
initialize ==
    /\ IF isInitialized
       THEN UNCHANGED <<jobs, isInitialized>>
       ELSE /\ jobs' = [n \in JobNames |-> schedule(jobs[n])]
            /\ isInitialized' = TRUE
    /\ lastCall' = [op |-> "initialize", name |-> Undefined, result |-> Undefined]
    /\ UNCHANGED <<now, users, alerts, tenders, runs, emailInitialized, evalIn, evalOut, queueVars, creation>>

\* The names given to stopJob / startJob: a registered name and an unknown one.
ManagedNames == {"daily-09:00", "monthly"}

\* stopJob(jobName): stops the job and returns true, or returns false.
stopJob(name) ==
    /\ IF name \in JobNames /\ jobs[name].state # "absent"
       THEN /\ jobs' = [jobs EXCEPT ![name] = stop(@)]
            /\ lastCall' = [op |-> "stopJob", name |-> name, result |-> "true"]
       ELSE /\ UNCHANGED jobs
            /\ lastCall' = [op |-> "stopJob", name |-> name, result |-> "false"]
    /\ UNCHANGED <<now, users, alerts, tenders, runs, isInitialized, emailInitialized,
                   evalIn, evalOut, queueVars, creation>>

\* startJob(jobName): starts the job and returns true, or returns false.
startJob(name) ==
    /\ IF name \in JobNames /\ jobs[name].state # "absent"
       THEN /\ jobs' = [jobs EXCEPT ![name] = start(@)]
            /\ lastCall' = [op |-> "startJob", name |-> name, result |-> "true"]
       ELSE /\ UNCHANGED jobs
            /\ lastCall' = [op |-> "startJob", name |-> name, result |-> "false"]
    /\ UNCHANGED <<now, users, alerts, tenders, runs, isInitialized, emailInitialized,
                   evalIn, evalOut, queueVars, creation>>

\* stopAllJobs(): job.stop() on every entry of the map.
stopAllJobs ==
    /\ jobs' = [n \in JobNames |-> stop(jobs[n])]
    /\ lastCall' = [op |-> "stopAllJobs", name |-> Undefined, result |-> Undefined]
    /\ UNCHANGED <<now, users, alerts, tenders, runs, isInitialized, emailInitialized,
                   evalIn, evalOut, queueVars, creation>>

\* startAllJobs(): job.start() on every entry of the map.
startAllJobs ==
    /\ jobs' = [n \in JobNames |-> start(jobs[n])]
    /\ lastCall' = [op |-> "startAllJobs", name |-> Undefined, result |-> Undefined]
    /\ UNCHANGED <<now, users, alerts, tenders, runs, isInitialized, emailInitialized,
                   evalIn, evalOut, queueVars, creation>>

\* Mutant of shutdown: the map is not cleared.
shutdownKeepsJobs ==
    /\ jobs' = [n \in JobNames |-> stop(jobs[n])]
    /\ isInitialized' = FALSE
    /\ lastCall' = [op |-> "shutdown", name |-> Undefined, result |-> Undefined]
    /\ UNCHANGED <<now, users, alerts, tenders, runs, emailInitialized, evalIn, evalOut, queueVars, creation>>

\* shutdown(): stopAllJobs(), this.jobs.clear(), this.isInitialized = false.
shutdown ==
    /\ jobs' = [n \in JobNames |->
                   [state |-> "absent", timezone |-> Undefined,
                    timers |-> stop(jobs[n]).timers]]
    /\ isInitialized' = FALSE
    /\ lastCall' = [op |-> "shutdown", name |-> Undefined, result |-> Undefined]
    /\ UNCHANGED <<now, users, alerts, tenders, runs, emailInitialized, evalIn, evalOut, queueVars, creation>>

(***************************************************************************)
(* Runs.  A run is one execution of processTenderAlerts,                   *)
(* processDailySummaries, processWeeklySummaries or cleanupOldData; pc is  *)
(* the await it is suspended at.  before, sent, failedSends and           *)
(* initErrors record what the run found and did, for the properties below. *)
(***************************************************************************)
NewRun(job, mode, time, tenderId) ==
    [ job |-> job, mode |-> mode, time |-> time, tender |-> tenderId,
      pc |-> IF mode = "cleanup" THEN "deleteMany" ELSE "findAlerts",
      cohort |-> <<>>, docs |-> alerts, candidates |-> <<>>, groups |-> <<>>,
      i |-> 0, a |-> 0, unique |-> <<>>,
      results |-> [processed |-> 0, emailsSent |-> 0, errors |-> <<>>],
      before |-> alerts, sent |-> <<>>, failedSends |-> <<>>, visited |-> <<>>,
      initErrors |-> <<>> ]

Finished(run) == run.pc \in {"returned", "thrown"}

InFlight(r) == r \in 1..Len(runs) /\ ~Finished(runs[r])

StartRun(job, mode, time, tenderId) ==
    /\ Len(runs) < MaxRuns
    /\ runs' = Append(runs, NewRun(job, mode, time, tenderId))
    /\ UNCHANGED <<now, users, alerts, tenders, jobs, lastCall, isInitialized, emailInitialized,
                   evalIn, evalOut, queueVars, creation>>

\* Mutant of CronDaily: the timer fires whatever the state of its job.
CronDailyUnmanaged(time) == StartRun(DailyJob(time), "daily", time, 0)

\* The cron callback of a daily job: processDailySummaries(time).
CronDaily(time) ==
    /\ jobs[DailyJob(time)].timers > 0
    /\ StartRun(DailyJob(time), "daily", time, 0)

\* The cron callback of the weekly job: processWeeklySummaries().
CronWeekly ==
    /\ jobs["weekly"].timers > 0
    /\ StartRun("weekly", "weekly", "", 0)

\* The cron callback of the cleanup job: cleanupOldData().
CronCleanup ==
    /\ jobs["cleanup"].timers > 0
    /\ StartRun("cleanup", "cleanup", "", 0)

triggerDailySummary(time) == StartRun(DailyJob(time), "daily", time, 0)

triggerWeeklySummary == StartRun("weekly", "weekly", "", 0)

triggerCleanup == StartRun("cleanup", "cleanup", "", 0)

\* processTenderAlerts(tender) for a newly observed record.
processTenderAlerts(t) == StartRun("immediate", "immediate", "", t)

(***************************************************************************)
(* EmailService: what a send can do.                                       *)
(***************************************************************************)

\* generateAlertEmailHTML/Text read these fields of the tender unguarded.
renderAlertThrows(tender) ==
    \/ tender.description = NoText
    \/ ~tender.organization.present
    \/ ~tender.location.present
    \/ ~tender.dates.present

\* generateSummaryEmailHTML/Text read these fields of every listed tender unguarded.
renderSummaryThrows(unique, store) ==
    \E k \in 1..Len(unique) :
        \/ ~store[unique[k]].organization.present
        \/ ~store[unique[k]].location.present
        \/ ~store[unique[k]].dates.present

\* The facts of one tender a rendering shows.  The value estimate is shown when
\* the tender has one.
valueFact(tender) == IF tender.amount # NoNumber THEN {"value"} ELSE {}

\* generateAlertEmailHTML: the tender card.
alertHtmlFacts(tender) ==
    {"title", "category", "organizationType", "description", "organizationName",
     "location", "closingDate", "link"} \cup valueFact(tender)

\* generateAlertEmailText: the numbered entry.
alertTextFacts(tender) ==
    {"title", "category", "organizationName", "organizationType", "location",
     "closingDate", "link"} \cup valueFact(tender)

\* generateSummaryEmailHTML: the tender item of a section.
summaryHtmlFacts(tender) == {"title", "organizationName", "location", "closingDate", "link"}

\* generateSummaryEmailText: the numbered entry of a section.
summaryTextFacts(tender) == {"title", "organizationName", "location", "closingDate", "link"}

\* The credentials initialize() requires for the Gmail OAuth2 transport.
requiredEnvVars ==
    {"GMAIL_CLIENT_ID", "GMAIL_CLIENT_SECRET", "GMAIL_REFRESH_TOKEN", "GMAIL_USER_EMAIL"}

\* initializeBasicTransporter(): the SMTP transporter, or the error rethrown.
initializeBasicTransporter(smtpWorks) == IF smtpWorks THEN "smtp" ELSE "throw"

\* EmailService.initialize(): the transporter it leaves, or "throw".  env is the
\* set of required variables that are set; oauthWorks and smtpWorks tell whether
\* building the OAuth2 and the SMTP transporter succeeds.
emailInitialize(env, oauthWorks, smtpWorks) ==
    IF requiredEnvVars \ env # {} THEN initializeBasicTransporter(smtpWorks)
    ELSE IF oauthWorks THEN "gmail"
    ELSE initializeBasicTransporter(smtpWorks)

\* What initialize() can do over all environments.
initializeOutcomes ==
    { emailInitialize(env, oauthWorks, smtpWorks) :
        env \in SUBSET requiredEnvVars, oauthWorks \in BOOLEAN, smtpWorks \in BOOLEAN }

\* sendAlertEmail: initialize() on first use, then render, then sendMail.
\* "initFail": no transport could be built; "fail": rendering or sendMail raised.
alertSendOutcomes(tender, initialized) ==
    {"fail"} \cup (IF initialized \/ "throw" \notin initializeOutcomes THEN {} ELSE {"initFail"})
             \cup (IF renderAlertThrows(tender) THEN {} ELSE {"ok"})

\* sendSummaryEmail: render, then this.transporter.sendMail (no initialize()).
summarySendOutcomes(unique, store, initialized) ==
    {"fail"} \cup (IF initialized /\ ~renderSummaryThrows(unique, store) THEN {"ok"} ELSE {})

(***************************************************************************)
(* Steps of a run.                                                         *)
(***************************************************************************)
IsDigest(run) == run.mode \in {"daily", "weekly"}

\* The type of the error entry a digest run pushes for an owner.
summaryErrorType(run) == IF run.mode = "daily" THEN "daily_summary" ELSE "weekly_summary"

\* Leaves the current iteration of the for loop: the next entry, or the return.
Advance(run) ==
    LET n == IF run.mode = "immediate" THEN Len(run.cohort) ELSE Len(run.groups)
    IN [run EXCEPT !.i = @ + 1, !.a = 0, !.unique = <<>>,
                   !.pc = IF run.i + 1 > n THEN "returned" ELSE "loop"]

\* Mutant of PushError: the catch block swallows the error.
PushErrorSwallowed(run, id, type) == run

\* results.errors.push({id, type, error}) in a catch block.
PushError(run, id, type) ==
    [run EXCEPT !.results.errors = Append(@, [id |-> id, type |-> type])]

\* await AlertConfiguration.find*Alerts(...) and the early return on no alerts.
FindAlerts(r) ==
    /\ InFlight(r)
    /\ runs[r].pc = "findAlerts"
    /\ LET run == runs[r]
           cohort == CASE run.mode = "immediate" -> findImmediateAlerts(alerts)
                       [] run.mode = "daily" -> findDailyAlerts(alerts, run.time)
                       [] OTHER -> findWeeklyAlerts(alerts, now)
       IN runs' = [runs EXCEPT ![r] =
               IF cohort = <<>> THEN [run EXCEPT !.pc = "returned"]
               ELSE [run EXCEPT !.cohort = cohort, !.docs = alerts, !.i = 1,
                                !.pc = IF run.mode = "immediate" THEN "loop"
                                       ELSE "findTenders"]]
    /\ UNCHANGED <<now, users, alerts, tenders, jobs, lastCall, isInitialized, emailInitialized,
                   evalIn, evalOut, queueVars, creation>>

\* await getRecentTenders(since), the early return on no tenders, groupAlertsByUser.
FindTenders(r) ==
    /\ InFlight(r)
    /\ runs[r].pc = "findTenders"
    /\ LET run == runs[r]
           since == now - (IF run.mode = "daily" THEN Days(1) ELSE Days(7))
           found == getRecentTenders(tenders, since)
           ownerMissing == \E k \in 1..Len(run.cohort) :
                               ~users[run.docs[run.cohort[k]].user].exists
       IN runs' = [runs EXCEPT ![r] =
               IF found = <<>> THEN [run EXCEPT !.pc = "returned"]
               ELSE IF ownerMissing THEN [run EXCEPT !.pc = "thrown"]
               ELSE [run EXCEPT !.candidates = found,
                                !.groups = groupAlertsByUser(run.cohort, run.docs),
                                !.pc = "loop"]]
    /\ UNCHANGED <<now, users, alerts, tenders, jobs, lastCall, isInitialized, emailInitialized,
                   evalIn, evalOut, queueVars, creation>>

\* One iteration of the per-owner loop of a digest run, up to the await of the send.
ProcessUser(r) ==
    /\ InFlight(r)
    /\ runs[r].pc = "loop"
    /\ IsDigest(runs[r])
    /\ LET run == [runs[r] EXCEPT !.visited = Append(@, runs[r].groups[runs[r].i].userId)]
           g == run.groups[run.i]
           throws == \E a \in 1..Len(g.alerts) :
                        filterThrows(run.docs[g.alerts[a]], run.candidates, tenders, now)
           unique == removeDuplicateTenders(
                        matchingTenders(g.alerts, run.docs, run.candidates, tenders, now))
       IN runs' = [runs EXCEPT ![r] =
               IF throws THEN Advance(PushError(run, g.userId, summaryErrorType(run)))
               ELSE IF unique = <<>>
                    THEN Advance([run EXCEPT !.results.processed = @ + 1])
               ELSE [run EXCEPT !.unique = unique, !.pc = "send"]]
    /\ UNCHANGED <<now, users, alerts, tenders, jobs, lastCall, isInitialized, emailInitialized,
                   evalIn, evalOut, queueVars, creation>>

\* await emailService.sendDailySummary / sendWeeklySummary(user, uniqueTenders, alerts).
SendSummary(r, outcome) ==
    /\ InFlight(r)
    /\ runs[r].pc = "send"
    /\ IsDigest(runs[r])
    /\ outcome \in summarySendOutcomes(runs[r].unique, tenders, emailInitialized)
    /\ LET run == runs[r]
           g == run.groups[run.i]
           message == [ to |-> users[g.userId].email, owner |-> g.userId,
                        kind |-> run.mode, at |-> now, count |-> Len(run.unique),
                        items |-> groupTendersByAlert(run.unique, g.alerts, run.docs,
                                                      tenders, now) ]
       IN runs' = [runs EXCEPT ![r] =
               IF outcome = "ok"
               THEN [run EXCEPT !.sent = IF Len(run.unique) = 0 THEN @
                                         ELSE Append(@, message),
                                !.a = 1, !.pc = "stats"]
               ELSE Advance(PushError([run EXCEPT !.failedSends = Append(@, g.userId)],
                                      g.userId, summaryErrorType(run)))]
    /\ UNCHANGED <<now, users, alerts, tenders, jobs, lastCall, isInitialized, emailInitialized,
                   evalIn, evalOut, queueVars, creation>>

\* for (const tender of alertMatches) await alert.updateStats(tender)
RECURSIVE updateStatsForAll(_, _, _)
updateStatsForAll(doc, matched, clock) ==
    IF matched = <<>> THEN doc
    ELSE updateStatsForAll(updateStats(doc, Head(matched), clock), Tail(matched), clock)

\* One iteration of the statistics loop of a digest run, after a confirmed send.
UpdateAlertStats(r) ==
    /\ InFlight(r)
    /\ runs[r].pc = "stats"
    /\ LET run == runs[r]
           g == run.groups[run.i]
           c == g.alerts[run.a]
           throws == filterThrows(run.docs[c], run.unique, tenders, now)
           alertMatches == matchesOf(run.docs[c], run.unique, tenders, now)
           doc == IF alertMatches = <<>> THEN run.docs[c]
                  ELSE incrementEmailSent(
                           updateStatsForAll(run.docs[c], alertMatches, now), now)
           after == [run EXCEPT !.docs[c] = doc, !.a = @ + 1]
       IN IF throws
          THEN /\ runs' = [runs EXCEPT ![r] =
                              Advance(PushError(run, g.userId, summaryErrorType(run)))]
               /\ UNCHANGED alerts
          ELSE /\ runs' = [runs EXCEPT ![r] =
                     IF run.a < Len(g.alerts) THEN after
                     ELSE Advance([after EXCEPT !.results.emailsSent = @ + 1,
                                                !.results.processed = @ + 1])]
               /\ alerts' = IF alertMatches = <<>> THEN alerts
                            ELSE [alerts EXCEPT ![c] = SaveEmailSent(SaveStats(@, doc), doc)]
    /\ UNCHANGED <<now, users, tenders, jobs, lastCall, isInitialized, emailInitialized,
                   evalIn, evalOut, queueVars, creation>>

\* One iteration of the per-alert loop of processTenderAlerts, up to the await of
\* the send: entitlement check, shouldTriggerForTender, await alert.updateStats.
ProcessAlert(r) ==
    /\ InFlight(r)
    /\ runs[r].pc = "loop"
    /\ runs[r].mode = "immediate"
    /\ LET run == [runs[r] EXCEPT !.visited = Append(@, runs[r].cohort[runs[r].i])]
           c == run.cohort[run.i]
           user == users[run.docs[c].user]
           verdict == shouldTriggerForTender(run.docs[c], tenders[run.tender], now)
           doc == updateStats(run.docs[c], run.tender, now)
       IN IF ~user.exists \/ ~user.emailAlerts
          THEN /\ runs' = [runs EXCEPT ![r] = Advance(run)]
               /\ UNCHANGED alerts
          ELSE IF verdict = "throw"
          THEN /\ runs' = [runs EXCEPT ![r] = Advance(PushError(run, c, "processing"))]
               /\ UNCHANGED alerts
          ELSE IF verdict = "false"
          THEN /\ runs' = [runs EXCEPT ![r] = Advance(run)]
               /\ UNCHANGED alerts
          ELSE /\ alerts' = [alerts EXCEPT ![c] = SaveStats(@, doc)]
               /\ runs' = [runs EXCEPT ![r] =
                     IF doc.enabled /\ doc.frequency = "immediate"
                     THEN [run EXCEPT !.docs[c] = doc, !.pc = "send"]
                     ELSE Advance([run EXCEPT !.docs[c] = doc,
                                              !.results.processed = @ + 1])]
    /\ UNCHANGED <<now, users, tenders, jobs, lastCall, isInitialized, emailInitialized,
                   evalIn, evalOut, queueVars, creation>>

\* await emailService.sendImmediateAlert(alert.user, tender, alert), then
\* await alert.incrementEmailSent() or the catch of emailError.
SendImmediate(r, outcome) ==
    /\ InFlight(r)
    /\ runs[r].pc = "send"
    /\ runs[r].mode = "immediate"
    /\ outcome \in alertSendOutcomes(tenders[runs[r].tender], emailInitialized)
    /\ LET run == runs[r]
           c == run.cohort[run.i]
           user == users[run.docs[c].user]
           message == [ to |-> effectiveEmail(run.docs[c], user), owner |-> run.docs[c].user,
                        kind |-> "immediate", at |-> now, count |-> 1,
                        items |-> <<[alert |-> c, tender |-> run.tender]>> ]
           doc == incrementEmailSent(run.docs[c], now)
       IN IF outcome = "ok"
          THEN /\ alerts' = [alerts EXCEPT ![c] = SaveEmailSent(@, doc)]
               /\ runs' = [runs EXCEPT ![r] =
                     Advance([run EXCEPT !.docs[c] = doc,
                                         !.sent = Append(@, message),
                                         !.results.emailsSent = @ + 1,
                                         !.results.processed = @ + 1])]
          ELSE /\ UNCHANGED alerts
               /\ runs' = [runs EXCEPT ![r] =
                     Advance(PushError([run EXCEPT !.failedSends = Append(@, c),
                                                   !.initErrors =
                                                       IF outcome = "initFail"
                                                       THEN Append(@, c) ELSE @,
                                                   !.results.processed = @ + 1],
                                       c, "email"))]
    /\ emailInitialized' = (emailInitialized \/ outcome # "initFail")
    /\ UNCHANGED <<now, users, tenders, jobs, lastCall, isInitialized, evalIn, evalOut, queueVars, creation>>

\* Mutant of RetentionDue: $lte in place of $lt.
RetentionDueInclusive(doc, clock) == ~doc.isActive /\ doc.updatedAt <= clock - Days(90)

\* The filter of deleteMany: {isActive: false, updatedAt: {$lt: ninetyDaysAgo}}.
RetentionDue(doc, clock) == ~doc.isActive /\ doc.updatedAt < clock - Days(90)

\* cleanupOldData: deleteMany({isActive: false, updatedAt: {$lt: ninetyDaysAgo}}).
CleanupOldData(r) ==
    /\ InFlight(r)
    /\ runs[r].pc = "deleteMany"
    /\ alerts' = [c \in ConfigIds |->
                    IF ~alerts[c].deleted /\ RetentionDue(alerts[c], now)
                    THEN [alerts[c] EXCEPT !.deleted = TRUE] ELSE alerts[c]]
    /\ runs' = [runs EXCEPT ![r].pc = "returned"]
    /\ UNCHANGED <<now, users, tenders, jobs, lastCall, isInitialized, emailInitialized,
                   evalIn, evalOut, queueVars, creation>>

\* await alert.updateStats(tender) of a digest run rejects (save() fails) after
\* the digest was sent: the catch of the owner's iteration pushes the error.
StatsWriteRejects(r) ==
    /\ InFlight(r)
    /\ runs[r].pc = "stats"
    /\ LET run == runs[r]
           g == run.groups[run.i]
       IN runs' = [runs EXCEPT ![r] =
                      Advance(PushError(run, g.userId, summaryErrorType(run)))]
    /\ UNCHANGED <<now, users, alerts, tenders, jobs, lastCall, isInitialized,
                   emailInitialized, evalIn, evalOut, queueVars, creation>>

\* await alert.incrementEmailSent() of an immediate run rejects (save() fails)
\* after sendImmediateAlert resolved: the catch of emailError pushes the error.
EmailSentWriteRejects(r) ==
    /\ InFlight(r)
    /\ runs[r].pc = "send"
    /\ runs[r].mode = "immediate"
    /\ "ok" \in alertSendOutcomes(tenders[runs[r].tender], emailInitialized)
    /\ LET run == runs[r]
           c == run.cohort[run.i]
           message == [ to |-> effectiveEmail(run.docs[c], users[run.docs[c].user]),
                        owner |-> run.docs[c].user,
                        kind |-> "immediate", at |-> now, count |-> 1,
                        items |-> <<[alert |-> c, tender |-> run.tender]>> ]
       IN runs' = [runs EXCEPT ![r] =
                      Advance(PushError([run EXCEPT !.sent = Append(@, message),
                                                    !.results.processed = @ + 1],
                                        c, "email"))]
    /\ emailInitialized' = TRUE
    /\ UNCHANGED <<now, users, alerts, tenders, jobs, lastCall, isInitialized,
                   evalIn, evalOut, queueVars, creation>>

(***************************************************************************)
(* The processing queue of AlertProcessingService.  queueLoop.pc is where  *)
(* processQueue is suspended: "idle" (no loop), "run" (await               *)
(* processTenderAlerts) or "delay" (await this.delay(100)); enqueued and   *)
(* shifted log what went into and came out of the queue.                   *)
(***************************************************************************)
MaxQueued == MaxRuns + 1

QueueRunIds == 1..MaxQueued

NoLoop == [pc |-> "idle", current |-> 0, enqueued |-> <<>>, shifted |-> <<>>]

\* Mutant of EnterLoop: pop() in place of shift().
EnterLoopPop(queue, log) ==
    /\ processingQueue' = SubSeq(queue, 1, Len(queue) - 1)
    /\ runs' = Append(runs, NewRun("queue", "immediate", "", queue[Len(queue)]))
    /\ queueLoop' = [log EXCEPT !.pc = "run", !.current = Len(runs) + 1,
                                !.shifted = Append(@, queue[Len(queue)])]

\* One entry of the while loop: processingQueue.shift() and the call of
\* processTenderAlerts, which runs to its first await.
EnterLoop(queue, log) ==
    /\ processingQueue' = Tail(queue)
    /\ runs' = Append(runs, NewRun("queue", "immediate", "", Head(queue)))
    /\ queueLoop' = [log EXCEPT !.pc = "run", !.current = Len(runs) + 1,
                                !.shifted = Append(@, Head(queue))]

\* processQueue() up to its first await, called with the queue as it stands.
processQueue(queue, log) ==
    IF isProcessing \/ queue = <<>>
    THEN /\ processingQueue' = queue
         /\ queueLoop' = log
         /\ UNCHANGED <<isProcessing, runs>>
    ELSE /\ isProcessing' = TRUE
         /\ EnterLoop(queue, log)

\* queueTenderForProcessing(tender): push, then processQueue() unless a loop runs.
queueTenderForProcessing(t) ==
    /\ Len(queueLoop.enqueued) < MaxQueued
    /\ LET queue == Append(processingQueue, t)
           log == [queueLoop EXCEPT !.enqueued = Append(@, t)]
       IN IF ~isProcessing
          THEN processQueue(queue, log)
          ELSE /\ processingQueue' = queue
               /\ queueLoop' = log
               /\ UNCHANGED <<isProcessing, runs>>
    /\ UNCHANGED <<now, users, alerts, tenders, jobs, lastCall, isInitialized,
                   emailInitialized, evalIn, evalOut, creation>>

\* await AlertConfiguration.findImmediateAlerts() rejects: the outer catch of
\* processTenderAlerts logs and rethrows.
findImmediateAlertsRejects(r) ==
    /\ InFlight(r)
    /\ runs[r].pc = "findAlerts"
    /\ runs[r].mode = "immediate"
    /\ runs' = [runs EXCEPT ![r].pc = "thrown"]
    /\ UNCHANGED <<now, users, alerts, tenders, jobs, lastCall, isInitialized,
                   emailInitialized, evalIn, evalOut, queueVars, creation>>

\* processTenderAlerts returned: the loop goes on to await this.delay(100).
QueueRunReturned ==
    /\ queueLoop.pc = "run"
    /\ runs[queueLoop.current].pc = "returned"
    /\ queueLoop' = [queueLoop EXCEPT !.pc = "delay"]
    /\ UNCHANGED <<now, users, alerts, tenders, runs, jobs, lastCall, isInitialized,
                   emailInitialized, evalIn, evalOut, processingQueue, isProcessing, creation>>

\* The delay elapsed: the while condition, then the next entry or the finally.
QueueDelayElapsed ==
    /\ queueLoop.pc = "delay"
    /\ IF processingQueue # <<>>
       THEN /\ EnterLoop(processingQueue, queueLoop)
            /\ UNCHANGED isProcessing
       ELSE /\ isProcessing' = FALSE
            /\ queueLoop' = [queueLoop EXCEPT !.pc = "idle"]
            /\ UNCHANGED <<processingQueue, runs>>
    /\ UNCHANGED <<now, users, alerts, tenders, jobs, lastCall, isInitialized,
                   emailInitialized, evalIn, evalOut, creation>>

\* processTenderAlerts threw: the catch logs, the finally clears isProcessing.
QueueRunThrew ==
    /\ queueLoop.pc = "run"
    /\ runs[queueLoop.current].pc = "thrown"
    /\ isProcessing' = FALSE
    /\ queueLoop' = [queueLoop EXCEPT !.pc = "idle"]
    /\ UNCHANGED <<now, users, alerts, tenders, runs, jobs, lastCall, isInitialized,
                   emailInitialized, evalIn, evalOut, processingQueue, creation>>

(***************************************************************************)
(* The alert controller: createAlert.                                      *)
(***************************************************************************)
NoRequest == [plan |-> "free", emailAlerts |-> FALSE, owned |-> 0, response |-> "none"]

Plans == {"free", "basic", "professional", "enterprise"}

\* The largest number of configurations a user owns in the model.
MaxOwned == 11

\* getMaxAlertsForPlan(plan)
getMaxAlertsForPlan(plan) ==
    CASE plan = "professional" -> 10
      [] plan = "enterprise" -> 0 - 1
      [] OTHER -> 0

\* createAlert with a valid body: 403 with the feature message, 403 with the
\* limit message, or 201.
createAlertResponse(plan, emailAlerts, owned) ==
    IF ~emailAlerts THEN "noFeature"
    ELSE IF owned >= getMaxAlertsForPlan(plan) THEN "limit"
    ELSE "created"

createAlert ==
    /\ creation.response = "none"
    /\ creation' = [creation EXCEPT !.response =
                       createAlertResponse(creation.plan, creation.emailAlerts,
                                           creation.owned)]
    /\ UNCHANGED <<now, users, alerts, tenders, runs, jobs, lastCall, isInitialized,
                   emailInitialized, evalIn, evalOut, queueVars>>

(***************************************************************************)
(* Predicate evaluator harness: one call of shouldTriggerForTender.        *)
(***************************************************************************)
Evaluate ==
    /\ evalOut = "none"
    /\ evalOut' = shouldTriggerForTender(evalIn[1], evalIn[2], now)
    /\ UNCHANGED <<now, users, alerts, tenders, runs, jobs, lastCall, isInitialized,
                   emailInitialized, evalIn, queueVars, creation>>

\* Configurations and records the evaluator is applied to.
EvalAlerts ==
    { [BlankAlert EXCEPT !.isActive = active, !.keywords = kw, !.excludeKeywords = ex,
                         !.categories = cat, !.provinces = prov, !.cities = city,
                         !.organizationTypes = org, !.maxDaysUntilClosing = maxDays] :
        active \in BOOLEAN,
        kw \in {<<>>, <<[term |-> <<"i", "t">>, matchType |-> "exact"]>>},
        ex \in {<<>>, << <<"d">> >>},
        cat \in {{}, {"it"}},
        prov \in {{}, {"western"}},
        city \in {{}, {"galle"}},
        org \in {{}, {"private"}},
        maxDays \in {NoNumber, 2} }

EvalTenders ==
    { [BlankTender EXCEPT !.title = title, !.description = desc,
                          !.location.present = loc, !.organization.present = org,
                          !.dates.present = dates, !.category = cat] :
        title \in {NoText, <<"I", "T">>, <<"D", "I", "G", "I", "T">>},
        desc \in {NoText, <<"i", "t", ".">>},
        loc \in BOOLEAN, org \in BOOLEAN, dates \in BOOLEAN,
        cat \in {Undefined, "it"} }

\* Single-clause keyword configurations, one per match mode.
KeywordAlerts ==
    { [BlankAlert EXCEPT !.keywords = <<[term |-> <<"I", "T">>, matchType |-> mode]>>] :
        mode \in {"exact", "starts_with", "ends_with", "contains"} }

\* Records whose text holds the term as a word, inside a longer word, or next
\* to punctuation and line breaks.
KeywordTenders ==
    { [BlankTender EXCEPT !.title = title, !.description = desc, !.fullTextMarkdown = full] :
        title \in { <<"I", "T">>, <<"D", "I", "G", "I", "T">>, <<"I", "T", ".">>,
                    <<"D", " ", "I", "T">>, <<"D", ",", "I", "T">>, <<"(", "I", "T", ")">> },
        desc \in { <<>>, <<"d">>, <<"d", "\n", "i", "t", "\n", "d">> },
        full \in { NoText, <<"i", "t", ",", " ", "d">> } }

\* Value-range configurations (amounts in thousands, halved: 2 is 1000, 4 is 5000)
\* and records with and without an estimated amount.
ValueAlerts ==
    { [BlankAlert EXCEPT !.min = lo, !.max = hi] :
        lo \in {NoNumber, 0, 2}, hi \in {NoNumber, 0, 4} }

ValueTenders ==
    { [BlankTender EXCEPT !.amount = amount] : amount \in {NoNumber, 0, 1, 3, 5} }

\* Days-until-closing configurations and records closing in three days, within
\* the next day, now, and two days ago.
ClosingAlerts ==
    { [BlankAlert EXCEPT !.minDaysUntilClosing = lo, !.maxDaysUntilClosing = hi] :
        lo \in {NoNumber, 0, 2}, hi \in {NoNumber, 0, 4} }

ClosingTenders ==
    { [BlankTender EXCEPT !.dates.closing = closing] :
        closing \in {NowStart + Days(3), NowStart + 1, NowStart, NowStart - Days(2)} }

(***************************************************************************)
(* Initial states and specifications.                                      *)
(***************************************************************************)

\* After construction of the singletons: no job registered, no run started.
InitServices ==
    /\ now = NowStart
    /\ users = UserFixture
    /\ runs = <<>>
    /\ jobs = NoJobs
    /\ lastCall = NoCall
    /\ isInitialized = FALSE
    /\ processingQueue = <<>>
    /\ isProcessing = FALSE
    /\ queueLoop = NoLoop
    /\ creation = NoRequest

\* The running server: initialize() has registered and started the jobs.
InitRunning ==
    /\ now = NowStart
    /\ users = UserFixture
    /\ runs = <<>>
    /\ jobs = [n \in JobNames |-> schedule(NoJobs[n])]
    /\ lastCall = [op |-> "initialize", name |-> Undefined, result |-> Undefined]
    /\ isInitialized = TRUE
    /\ processingQueue = <<>>
    /\ isProcessing = FALSE
    /\ queueLoop = NoLoop
    /\ creation = NoRequest

\* A run scenario: the stored configurations of one frequency family, the stored
\* records, and the transport either fresh or initialized by an earlier send.
Init ==
    /\ InitRunning
    /\ \/ alerts \in [ConfigIds -> ImmediateAlerts]
       \/ alerts \in [ConfigIds -> DailyAlerts]
       \/ alerts \in [ConfigIds -> WeeklyAlerts]
       \/ alerts \in [ConfigIds -> RetentionAlerts]
    /\ tenders \in [TenderIds -> ScenarioTenders]
    /\ emailInitialized \in BOOLEAN
    /\ evalIn = <<BlankAlert, BlankTender>>
    /\ evalOut = "none"

Trigger ==
    \/ \E time \in DailyTimes : CronDaily(time)
    \/ CronWeekly
    \/ CronCleanup
    \/ \E time \in DailyTimes : triggerDailySummary(time)
    \/ triggerWeeklySummary
    \/ triggerCleanup
    \/ \E t \in TenderIds : processTenderAlerts(t)

Step ==
    \E r \in RunIds :
        \/ FindAlerts(r)
        \/ FindTenders(r)
        \/ ProcessUser(r)
        \/ \E outcome \in {"ok", "fail"} : SendSummary(r, outcome)
        \/ UpdateAlertStats(r)
        \/ ProcessAlert(r)
        \/ \E outcome \in {"ok", "fail", "initFail"} : SendImmediate(r, outcome)
        \/ CleanupOldData(r)

\* No run has been started yet.
Quiet == runs = <<>>

\* One run, triggered in any way, from a scenario.
Next ==
    \/ Quiet /\ Trigger
    \/ Step

Spec == Init /\ [][Next]_vars

\* A configuration with a recipient override (emailSettings.customEmail).
WithCustomEmail(a) == [a EXCEPT !.customEmail = "custom@mail"]

\* Configurations of a recipient scenario: owners without the email-alerts
\* feature (3) or without a user document (4), and entitled owners with and
\* without a recipient override, in the three frequencies.
OwnerAlerts ==
    { OwnedBy(BlankAlert, 3),
      OwnedBy(BlankAlert, 4),
      Daily(OwnedBy(BlankAlert, 3), "09:00"),
      Daily(OwnedBy(BlankAlert, 4), "09:00"),
      Weekly(OwnedBy(BlankAlert, 3), NoNumber),
      Weekly(OwnedBy(BlankAlert, 4), NoNumber),
      BlankAlert,
      Daily(BlankAlert, "09:00"),
      Weekly(BlankAlert, NoNumber),
      WithCustomEmail(BlankAlert),
      Daily(WithCustomEmail(BlankAlert), "09:00"),
      Weekly(WithCustomEmail(BlankAlert), NoNumber) }

InitOwners ==
    /\ InitRunning
    /\ alerts \in [ConfigIds -> OwnerAlerts]
    /\ tenders \in [TenderIds -> ScenarioTenders]
    /\ emailInitialized = TRUE
    /\ evalIn = <<BlankAlert, BlankTender>>
    /\ evalOut = "none"

\* One run, triggered in any way, from a recipient scenario.
SpecOwners == InitOwners /\ [][Next]_vars

\* One run from a scenario, on a store whose writes may fail.
NextStore ==
    \/ Next
    \/ \E r \in RunIds : StatsWriteRejects(r)
    \/ \E r \in RunIds : EmailSentWriteRejects(r)

SpecStore == Init /\ [][NextStore]_vars

\* Weekly runs one after the other, started by the timer or by hand, with days
\* passing in between.
MaxDaysPassed == 7

NoRunInFlight == \A r \in 1..Len(runs) : Finished(runs[r])

\* Weekly configurations never sent, sent 3 days ago and sent 7 days ago.
ThrottleAlerts ==
    { Weekly(BlankAlert, NoNumber),
      Weekly(OwnedBy(BlankAlert, 2), NowStart - Days(3)),
      Weekly(WithCategory(BlankAlert), NowStart - Days(7)) }

InitWeekly ==
    /\ InitRunning
    /\ alerts \in [ConfigIds -> ThrottleAlerts]
    /\ tenders \in [TenderIds -> {BlankTender,
                                   [BlankTender EXCEPT !.dates.published = NowStart - Days(3)]}]
    /\ emailInitialized = TRUE
    /\ evalIn = <<BlankAlert, BlankTender>>
    /\ evalOut = "none"

\* Days pass while no run is in flight.
DaysPass ==
    /\ NoRunInFlight
    /\ \E d \in {1, 6} :
          /\ now + Days(d) <= NowStart + Days(MaxDaysPassed)
          /\ now' = now + Days(d)
    /\ UNCHANGED <<users, alerts, tenders, runs, jobs, lastCall, isInitialized,
                   emailInitialized, evalIn, evalOut, queueVars, creation>>

\* The next await of a run of processWeeklySummaries.
WeeklyRunStep(r) ==
    \/ FindAlerts(r)
    \/ FindTenders(r)
    \/ ProcessUser(r)
    \/ \E outcome \in {"ok", "fail"} : SendSummary(r, outcome)
    \/ UpdateAlertStats(r)

NextWeekly ==
    \/ NoRunInFlight /\ (CronWeekly \/ triggerWeeklySummary)
    \/ DaysPass
    \/ \E r \in RunIds : WeeklyRunStep(r)

SpecWeekly == InitWeekly /\ [][NextWeekly]_vars

\* One createAlert request of a user on any plan, with or without the
\* email-alerts feature, who owns any number of configurations.
InitCreate ==
    /\ now = NowStart
    /\ users = UserFixture
    /\ runs = <<>>
    /\ jobs = NoJobs
    /\ lastCall = NoCall
    /\ isInitialized = FALSE
    /\ processingQueue = <<>>
    /\ isProcessing = FALSE
    /\ queueLoop = NoLoop
    /\ alerts = [c \in ConfigIds |-> BlankAlert]
    /\ tenders = [t \in TenderIds |-> BlankTender]
    /\ emailInitialized = FALSE
    /\ evalIn = <<BlankAlert, BlankTender>>
    /\ evalOut = "none"
    /\ creation \in [plan : Plans, emailAlerts : BOOLEAN, owned : 0..MaxOwned,
                     response : {"none"}]

SpecCreate == InitCreate /\ [][createAlert]_vars

\* Triggers at any time: runs overlap at their awaits.
InitSched ==
    /\ InitServices
    /\ alerts = [c \in ConfigIds |->
                    CASE c = 1 -> Daily(BlankAlert, "09:00")
                      [] c = 2 -> BlankAlert
                      [] OTHER -> [BlankAlert EXCEPT !.isActive = FALSE]]
    /\ tenders = [t \in TenderIds |-> BlankTender]
    /\ emailInitialized = TRUE
    /\ evalIn = <<BlankAlert, BlankTender>>
    /\ evalOut = "none"

NextSched ==
    \/ initialize
    \/ Trigger
    \/ Step

SpecSched == InitSched /\ [][NextSched]_vars

\* The evaluator applied to every configuration and record of the harness.
InitMatch ==
    /\ InitServices
    /\ alerts = [c \in ConfigIds |-> BlankAlert]
    /\ tenders = [t \in TenderIds |-> BlankTender]
    /\ emailInitialized = FALSE
    /\ evalIn \in (EvalAlerts \X EvalTenders) \cup (KeywordAlerts \X KeywordTenders)
                    \cup (ValueAlerts \X ValueTenders) \cup (ClosingAlerts \X ClosingTenders)
    /\ evalOut = "none"

SpecMatch == InitMatch /\ [][Evaluate]_vars

\* The scheduler under management calls: the timers fire whenever their job
\* runs, and the runs they start interleave with the calls at their awaits.
InitJobs ==
    /\ InitServices
    /\ alerts = [c \in ConfigIds |->
                    CASE c = 1 -> Daily(BlankAlert, "09:00")
                      [] c = 2 -> Weekly(BlankAlert, NoNumber)
                      [] OTHER -> Inactive(BlankAlert)]
    /\ tenders = [t \in TenderIds |-> BlankTender]
    /\ emailInitialized = TRUE
    /\ evalIn = <<BlankAlert, BlankTender>>
    /\ evalOut = "none"

Manage ==
    \/ initialize
    \/ shutdown
    \/ \E name \in ManagedNames : stopJob(name)
    \/ \E name \in ManagedNames : startJob(name)
    \/ stopAllJobs
    \/ startAllJobs

Timer ==
    \/ CronDaily("09:00")
    \/ CronWeekly
    \/ CronCleanup

\* The next await of run r, when it was started by a timer.
TimerRunStep(r) ==
    \/ FindAlerts(r)
    \/ FindTenders(r)
    \/ ProcessUser(r)
    \/ \E outcome \in {"ok", "fail"} : SendSummary(r, outcome)
    \/ UpdateAlertStats(r)
    \/ CleanupOldData(r)

NextJobs ==
    \/ Manage
    \/ Timer
    \/ \E r \in RunIds : TimerRunStep(r)

SpecJobs == InitJobs /\ [][NextJobs]_vars

\* The strings /^([0-1]?[0-9]|2[0-3]):[0-5][0-9]$/ matches: the dailySummaryTime
\* values the schema and the request validation accept.
Digits == {"0", "1", "2", "3", "4", "5", "6", "7", "8", "9"}

ValidHours ==
    Digits \cup { a \o b : a \in {"0", "1"}, b \in Digits }
           \cup { "2" \o b : b \in {"0", "1", "2", "3"} }

ValidMinutes == { a \o b : a \in {"0", "1", "2", "3", "4", "5"}, b \in Digits }

ValidDailyTimes == { h \o ":" \o m : h \in ValidHours, m \in ValidMinutes }

\* Values a client submits as dailySummaryTime.
SubmittedTimes ==
    {"08:00", "09:00", "10:00", "12:00", "18:00", "07:30", "9:00", "23:59", "00:00",
     "24:00", "09:60", "0900"}

\* The stored configurations after one accepted write: configuration 1 is a daily
\* configuration with the submitted time; a rejected write stores nothing.
InitTimes ==
    /\ InitServices
    /\ \E time \in SubmittedTimes :
          alerts = [c \in ConfigIds |->
                      IF c = 1 /\ time \in ValidDailyTimes
                      THEN Daily(BlankAlert, time) ELSE Inactive(BlankAlert)]
    /\ tenders = [t \in TenderIds |-> BlankTender]
    /\ emailInitialized = TRUE
    /\ evalIn = <<BlankAlert, BlankTender>>
    /\ evalOut = "none"

\* The next await of a run of processDailySummaries.
DailyRunStep(r) ==
    \/ FindAlerts(r)
    \/ FindTenders(r)
    \/ ProcessUser(r)
    \/ \E outcome \in {"ok", "fail"} : SendSummary(r, outcome)
    \/ UpdateAlertStats(r)

\* The registered daily timers and the runs they start.
NextTimes ==
    \/ initialize
    \/ \E time \in DailyTimes : CronDaily(time)
    \/ \E r \in RunIds : DailyRunStep(r)

SpecTimes == InitTimes /\ [][NextTimes]_vars

\* The queue under enqueues at any time: one immediate configuration that
\* matches every record, the store read of a run failing or not.
InitQueue ==
    /\ InitServices
    /\ alerts = [c \in ConfigIds |->
                    IF c = 1 THEN BlankAlert ELSE Inactive(BlankAlert)]
    /\ tenders = [t \in TenderIds |-> BlankTender]
    /\ emailInitialized = TRUE
    /\ evalIn = <<BlankAlert, BlankTender>>
    /\ evalOut = "none"

\* The next await of a run of processTenderAlerts.
ImmediateRunStep(r) ==
    \/ FindAlerts(r)
    \/ findImmediateAlertsRejects(r)
    \/ ProcessAlert(r)
    \/ \E outcome \in {"ok", "fail"} : SendImmediate(r, outcome)

\* What the event loop runs once it is free: the continuation of processQueue
\* or of the run it awaits.
QueueProgress ==
    \/ QueueRunReturned
    \/ QueueDelayElapsed
    \/ QueueRunThrew
    \/ \E r \in QueueRunIds : ImmediateRunStep(r)

NextQueue ==
    \/ \E t \in TenderIds : queueTenderForProcessing(t)
    \/ QueueProgress

\* Every pending continuation is eventually run; enqueues come or not.
SpecQueue == InitQueue /\ [][NextQueue]_vars /\ WF_vars(QueueProgress)

(***************************************************************************)
(* Properties.                                                             *)
(***************************************************************************)
Started == 1..Len(runs)

\* The statistics fields of a configuration.
StatsOf(doc) ==
    <<doc.totalMatches, doc.emailsSent, doc.lastMatchedTender, doc.lastMatchedAt,
      doc.lastSentAt>>

\* The configurations behind a failed send: the alert itself in an immediate run,
\* the owner's alerts of the cohort in a digest run.
BehindFailedSend(run, id) ==
    IF run.mode = "immediate" THEN {id}
    ELSE { c \in ConfigIds : /\ \E k \in 1..Len(run.cohort) : run.cohort[k] = c
                             /\ run.before[c].user = id }

\* What the loop of a run iterates over: alerts (immediate) or owners (digest).
LoopEntries(run) ==
    IF run.mode = "immediate" THEN run.cohort
    ELSE [g \in 1..Len(run.groups) |-> run.groups[g].userId]

\* The records a run evaluates.
CandidatesOf(run) == IF run.mode = "immediate" THEN <<run.tender>> ELSE run.candidates

InCohort(run, c) == \E k \in 1..Len(run.cohort) : run.cohort[k] = c

\* C1: at no time are two runs of the same named scheduler job in flight.
C1_OneRunPerJob ==
    \A r1 \in Started, r2 \in Started :
        (r1 # r2 /\ InFlight(r1) /\ InFlight(r2) /\ runs[r1].job \in JobNames)
            => runs[r1].job # runs[r2].job

\* C2: when a send fails, the stats of the configurations behind it have the
\* values they had before the run.
C2_FailedSendLeavesStats ==
    \A r \in Started :
        \A k \in 1..Len(runs[r].failedSends) :
            \A c \in BehindFailedSend(runs[r], runs[r].failedSends[k]) :
                StatsOf(alerts[c]) = StatsOf(runs[r].before[c])

\* C3: a failed send adds exactly one entry to the run's error list, the run
\* does not throw, and it still visits every alert (immediate) or owner (digest).
C3_FailedSendIsolated ==
    \A r \in Started :
        LET run == runs[r] IN
        /\ \A k \in 1..Len(run.failedSends) :
              Cardinality({e \in 1..Len(run.results.errors) :
                              run.results.errors[e].id = run.failedSends[k]}) = 1
        /\ run.failedSends # <<>> => run.pc # "thrown"
        /\ (run.failedSends # <<>> /\ Finished(run)) => run.visited = LoopEntries(run)

\* C3 witness: a returned run whose first send failed and that went on to a
\* second alert or owner.
C3_Witness ==
    \E r \in Started :
        /\ runs[r].pc = "returned"
        /\ Len(runs[r].visited) >= 2
        /\ Len(runs[r].failedSends) >= 1
        /\ runs[r].failedSends[1] = runs[r].visited[1]

\* C4: in a digest, every record appears exactly once in the content of the
\* owner's notification.
C4_RecordOncePerDigest ==
    \A r \in Started :
        \A m \in 1..Len(runs[r].sent) :
            LET msg == runs[r].sent[m] IN
            msg.kind \in {"daily", "weekly"} =>
                \A i \in 1..Len(msg.items), j \in 1..Len(msg.items) :
                    i # j => msg.items[i].tender # msg.items[j].tender

\* C5: a run dispatches at most one notification per distinct recipient.
C5_OneMessagePerRecipient ==
    \A r \in Started :
        \A i \in 1..Len(runs[r].sent), j \in 1..Len(runs[r].sent) :
            i # j => runs[r].sent[i].to # runs[r].sent[j].to

\* An owner none of whose eligible configurations matches any candidate record.
ZeroMatchOwner(run, u) ==
    \A c \in ConfigIds :
        (InCohort(run, c) /\ run.before[c].user = u) =>
            \A k \in 1..Len(run.candidates) :
                shouldTriggerForTender(run.before[c], tenders[run.candidates[k]], now)
                    # "true"

\* C6: in a daily or weekly run an owner with zero matches gets no email and
\* none of that owner's configurations is changed.
C6_ZeroMatchOwnerUntouched ==
    \A r \in Started :
        IsDigest(runs[r]) =>
            \A u \in UserIds :
                ZeroMatchOwner(runs[r], u) =>
                    /\ \A m \in 1..Len(runs[r].sent) : runs[r].sent[m].owner # u
                    /\ \A c \in ConfigIds :
                          alerts[c].user = u => alerts[c] = runs[r].before[c]

\* C6 witness: a returned daily run over a non-empty window in which one owner
\* had no match and another owner was notified.
C6_Witness ==
    \E r \in Started :
        /\ runs[r].mode = "daily"
        /\ runs[r].pc = "returned"
        /\ runs[r].candidates # <<>>
        /\ Len(runs[r].sent) = 1
        /\ \E g \in 1..Len(runs[r].groups) :
              /\ ZeroMatchOwner(runs[r], runs[r].groups[g].userId)
              /\ runs[r].groups[g].userId # runs[r].sent[1].owner

\* The configurations findImmediateAlerts is documented to return.
ImmediateEligible(store) ==
    { c \in ConfigIds : /\ ~store[c].deleted
                        /\ store[c].isActive
                        /\ store[c].enabled
                        /\ store[c].frequency = "immediate" }

\* The scenario of C7: exactly one eligible configuration, of an entitled owner,
\* which matches the record, and no send of the run failed.
OneMatchingImmediate(run, c) ==
    /\ run.mode = "immediate"
    /\ run.pc = "returned"
    /\ ImmediateEligible(run.before) = {c}
    /\ users[run.before[c].user].exists
    /\ users[run.before[c].user].emailAlerts
    /\ shouldTriggerForTender(run.before[c], tenders[run.tender], now) = "true"
    /\ run.failedSends = <<>>

\* C7: an immediate run with exactly one matching configuration whose send
\* succeeds dispatches exactly one notification, to the owner, and raises
\* totalMatches and emailsSent of the configuration by exactly 1.
C7_SingleImmediateMatch ==
    \A r \in Started :
        \A c \in ConfigIds :
            OneMatchingImmediate(runs[r], c) =>
                /\ Len(runs[r].sent) = 1
                /\ runs[r].sent[1].owner = runs[r].before[c].user
                /\ alerts[c].totalMatches = runs[r].before[c].totalMatches + 1
                /\ alerts[c].emailsSent = runs[r].before[c].emailsSent + 1
                /\ runs[r].results.emailsSent = 1

\* C7 witness: the scenario on a fresh configuration, which ends with both
\* counters at 1.
C7_Witness ==
    \E r \in Started :
        \E c \in ConfigIds :
            /\ OneMatchingImmediate(runs[r], c)
            /\ runs[r].before[c].totalMatches = 0
            /\ alerts[c].totalMatches = 1
            /\ alerts[c].emailsSent = 1

\* C8: a weekly run takes a stored configuration into its cohort exactly when
\* it is active, email-enabled, weekly, and never sent or last sent at least
\* seven days before the run.
C8_WeeklyEligibility ==
    \A r \in Started :
        (runs[r].mode = "weekly" /\ runs[r].pc # "findAlerts") =>
            \A c \in ConfigIds :
                LET doc == runs[r].before[c] IN
                InCohort(runs[r], c) <=>
                    /\ ~doc.deleted
                    /\ doc.isActive
                    /\ doc.enabled
                    /\ doc.frequency = "weekly"
                    /\ \/ doc.lastSentAt = NoNumber
                       \/ now - doc.lastSentAt >= 7 * TicksPerDay

\* C8 witness: a weekly run that left out a configuration sent three days ago
\* and took in one sent eight days ago.
C8_Witness ==
    \E r \in Started :
        /\ runs[r].mode = "weekly"
        /\ runs[r].pc # "findAlerts"
        /\ \E c1 \in ConfigIds, c2 \in ConfigIds :
              /\ runs[r].before[c1].frequency = "weekly"
              /\ runs[r].before[c1].lastSentAt = now - 3 * TicksPerDay
              /\ ~InCohort(runs[r], c1)
              /\ runs[r].before[c2].lastSentAt = now - 8 * TicksPerDay
              /\ InCohort(runs[r], c2)

Notified(run, c) ==
    \E m \in 1..Len(run.sent) :
        \E i \in 1..Len(run.sent[m].items) : run.sent[m].items[i].alert = c

\* C11: an inactive configuration matches no record, whatever its other fields,
\* and no run selects it, changes its stats or lists it in a notification.
C11_InactiveNeverMatches ==
    \A c \in ConfigIds :
        ~alerts[c].isActive =>
            /\ \A t \in TenderIds :
                  shouldTriggerForTender(alerts[c], tenders[t], now) = "false"
            /\ \A r \in Started :
                  /\ ~InCohort(runs[r], c)
                  /\ ~Notified(runs[r], c)
                  /\ StatsOf(alerts[c]) = StatsOf(runs[r].before[c])

\* A run that notified an owner has returned while the same owner holds an
\* inactive keyword configuration and a stored record has no title.
C11_Witness ==
    \E r \in Started, c \in ConfigIds, t \in TenderIds :
        /\ runs[r].pc = "returned"
        /\ ~alerts[c].isActive
        /\ Len(alerts[c].keywords) > 0
        /\ tenders[t].title = NoText
        /\ \E m \in 1..Len(runs[r].sent) : runs[r].sent[m].owner = alerts[c].user

\* A character that is part of a word.
WordChar(ch) == ch \in {"i", "t", "d", "g"}

\* The term occurs in the text as a whole word: neither neighbour is a word character.
WholeWordOccurs(text, term) ==
    \E i \in 0..(Len(text) - Len(term)) :
        /\ SubSeq(text, i + 1, i + Len(term)) = term
        /\ (i = 0 \/ ~WordChar(text[i]))
        /\ (i + Len(term) = Len(text) \/ ~WordChar(text[i + Len(term) + 1]))

\* The harness evaluated a configuration whose only criterion is one exact clause.
ExactClauseOnly ==
    /\ evalOut # "none"
    /\ evalIn[1] \in KeywordAlerts
    /\ evalIn[1].keywords[1].matchType = "exact"
    /\ evalIn[2] \in KeywordTenders

\* C12: an exact clause matches exactly when the term stands in the lower-cased
\* buffer as a whole word, whatever non-word characters surround it.
C12_ExactIsWholeWord ==
    ExactClauseOnly =>
        (evalOut = "true" <=>
            WholeWordOccurs(textToSearch(evalIn[2]), toLowerCase(evalIn[1].keywords[1].term)))

\* A bound that is present holds, an absent bound holds vacuously.
AtLeast(x, bound) == bound = NoNumber \/ x >= bound

AtMost(x, bound) == bound = NoNumber \/ x <= bound

\* C13: a record with an amount (0 included) passes the value check exactly when
\* the amount respects every bound that is present (0 included); a record with
\* no amount passes.
C13_ValueRange ==
    (evalOut # "none" /\ evalIn[1] \in ValueAlerts /\ evalIn[2] \in ValueTenders) =>
        (evalOut = "true" <=>
            \/ evalIn[2].amount = NoNumber
            \/ /\ AtLeast(evalIn[2].amount, evalIn[1].min)
               /\ AtMost(evalIn[2].amount, evalIn[1].max))

\* C14: with a minimum and/or maximum days-until-closing set (0 included), a
\* record matches exactly when d = ceil((closing - now) / 1 day) respects them.
C14_DaysUntilClosing ==
    (evalOut # "none" /\ evalIn[1] \in ClosingAlerts /\ evalIn[2] \in ClosingTenders) =>
        (evalOut = "true" <=>
            /\ AtLeast(daysUntilClosing(evalIn[2], now), evalIn[1].minDaysUntilClosing)
            /\ AtMost(daysUntilClosing(evalIn[2], now), evalIn[1].maxDaysUntilClosing))

\* The names under which this.jobs holds a task.
Registered == { n \in DOMAIN jobs : jobs[n].state # "absent" }

\* C15: whenever the scheduler is initialized, exactly the five daily jobs, the
\* weekly job and the cleanup job are registered, each in timezone Asia/Colombo
\* and each with no more than the one timer of its registered task.
C15_RegisteredJobs ==
    isInitialized =>
        /\ Registered = {"daily-08:00", "daily-09:00", "daily-10:00", "daily-12:00",
                         "daily-18:00", "weekly", "cleanup"}
        /\ \A n \in Registered :
              /\ jobs[n].timezone = "Asia/Colombo"
              /\ jobs[n].timers = IF jobs[n].state = "started" THEN 1 ELSE 0

\* initialize() was called again on a scheduler whose 09:00 job had been stopped
\* after its timer had fired.
C15_Witness ==
    /\ isInitialized
    /\ lastCall.op = "initialize"
    /\ jobs["daily-09:00"].state = "stopped"
    /\ runs # <<>>

\* C16: after shutdown() no job is registered, no timer runs and the scheduler
\* is uninitialized, whatever the state it was called in; an initialize() that
\* follows registers and starts the full job set.
C16_ShutdownIdempotent ==
    /\ [](lastCall.op = "shutdown" =>
            /\ ~isInitialized
            /\ Registered = {}
            /\ \A n \in DOMAIN jobs : jobs[n].timers = 0)
    /\ [][(lastCall.op = "shutdown" /\ lastCall'.op = "initialize") =>
            /\ isInitialized'
            /\ \A n \in JobNames : jobs'[n].state = "started" /\ jobs'[n].timers = 1]_vars

\* shutdown() was called on a scheduler whose timers had fired.
C16_Witness ==
    /\ lastCall.op = "shutdown"
    /\ runs # <<>>
    /\ \E r \in Started : InFlight(r)

\* C17: a timer starts a run only while its job is started; stopJob / startJob
\* leave every run, every stored document and every other job as they are, and
\* return false without effect for an unknown name; a run in flight can take
\* its next step whatever the state of its job.
C17_StopPreventsOnlyFutureTriggers ==
    /\ [][ /\ Len(runs') > Len(runs) => jobs[runs'[Len(runs')].job].state = "started"
           /\ (lastCall'.op \in {"stopJob", "startJob"}
                  /\ <<jobs, lastCall>>' # <<jobs, lastCall>>) =>
                 /\ runs' = runs
                 /\ alerts' = alerts
                 /\ \A n \in JobNames \ {lastCall'.name} : jobs'[n] = jobs[n]
                 /\ lastCall'.name \notin JobNames =>
                       (lastCall'.result = "false" /\ jobs' = jobs) ]_vars
    /\ [](\A r \in Started :
              (InFlight(r) /\ jobs[runs[r].job].state # "started") =>
                  ENABLED TimerRunStep(r))

\* The 09:00 job is stopped while a run of it is in flight, its summary sent and
\* its stats not yet written.
C17_Witness ==
    /\ jobs["daily-09:00"].state = "stopped"
    /\ \E r \in Started :
          /\ runs[r].job = "daily-09:00"
          /\ runs[r].pc = "stats"

\* C18: with all four credentials the full transport is attempted, with any of
\* them missing the basic transport is initialized, initialization fails only
\* when the basic transport cannot be built, and no send of a run fails on it.
C18_InitFailsOnlyAtStart ==
    /\ \A env \in SUBSET requiredEnvVars, oauthWorks \in BOOLEAN, smtpWorks \in BOOLEAN :
          LET transporter == emailInitialize(env, oauthWorks, smtpWorks) IN
          /\ (env = requiredEnvVars /\ oauthWorks) => transporter = "gmail"
          /\ (env # requiredEnvVars /\ smtpWorks) => transporter = "smtp"
          /\ transporter = "throw" => ~smtpWorks
    /\ \A r \in Started : runs[r].initErrors = <<>>

\* C19: for every record of every notification sent, each fact the HTML body
\* shows for the record is also shown by the text body.
C19_TextMirrorsHtml ==
    \A r \in Started :
        \A m \in 1..Len(runs[r].sent) :
            \A i \in 1..Len(runs[r].sent[m].items) :
                LET tender == tenders[runs[r].sent[m].items[i].tender] IN
                IF runs[r].sent[m].kind = "immediate"
                THEN alertHtmlFacts(tender) \subseteq alertTextFacts(tender)
                ELSE summaryHtmlFacts(tender) \subseteq summaryTextFacts(tender)

\* C20: cleanup deletes a configuration only if it is inactive and was last
\* updated more than 90 days ago; every other configuration is still stored,
\* with all its fields, after a cleanup run.
C20_RetentionCleanup ==
    \A r \in Started :
        runs[r].mode = "cleanup" =>
            \A c \in ConfigIds :
                LET doc == runs[r].before[c] IN
                /\ alerts[c].deleted =>
                      (~doc.isActive /\ doc.updatedAt < now - 90 * TicksPerDay)
                /\ (doc.isActive \/ doc.updatedAt >= now - 90 * TicksPerDay) =>
                      alerts[c] = doc

\* A cleanup run has returned: it deleted a configuration switched off 91 days
\* ago and kept one switched off exactly 90 days ago.
C20_Witness ==
    \E r \in Started, c1 \in ConfigIds, c2 \in ConfigIds :
        /\ runs[r].mode = "cleanup"
        /\ runs[r].pc = "returned"
        /\ alerts[c1].deleted
        /\ ~alerts[c2].isActive
        /\ alerts[c2].updatedAt = now - 90 * TicksPerDay
        /\ ~alerts[c2].deleted

\* C21: whenever a send of a run reaches transporter.sendMail (its rendering did
\* not raise), the transport has been initialized.
C21_InitializedBeforeSendMail ==
    [][\A r \in Started :
          (/\ runs[r].pc = "send"
           /\ runs'[r] # runs[r]
           /\ IF IsDigest(runs[r])
              THEN ~renderSummaryThrows(runs[r].unique, tenders)
              ELSE /\ ~renderAlertThrows(tenders[runs[r].tender])
                   /\ runs'[r].initErrors = runs[r].initErrors)
          => emailInitialized']_vars

\* Every run started so far has returned or thrown.
AllFinished == runs # <<>> /\ \A r \in Started : Finished(runs[r])

\* The number of items of a message that belong to configuration c.
ItemsOf(message, c) ==
    Cardinality({ j \in 1..Len(message.items) : message.items[j].alert = c })

RECURSIVE SumOver(_, _)
SumOver(f, n) == IF n = 0 THEN 0 ELSE f[n] + SumOver(f, n - 1)

\* The matches a finished run counted on configuration c: one per send it
\* attempted (immediate), one per item of a digest it sent.
MatchesCounted(run, c) ==
    IF run.mode = "immediate"
    THEN Cardinality({ k \in 1..Len(run.sent) : ItemsOf(run.sent[k], c) > 0 })
         + Cardinality({ k \in 1..Len(run.failedSends) : run.failedSends[k] = c })
    ELSE SumOver([k \in 1..Len(run.sent) |-> ItemsOf(run.sent[k], c)], Len(run.sent))

\* The confirmed sends of a finished run that configuration c was part of.
ConfirmedSends(run, c) ==
    Cardinality({ k \in 1..Len(run.sent) : ItemsOf(run.sent[k], c) > 0 })

\* C22: once every run has completed, the persisted totalMatches of every
\* configuration has grown by the matches all runs counted on it, and its
\* emailsSent by the confirmed sends of all runs.
C22_NoLostIncrements ==
    AllFinished =>
        \A c \in ConfigIds :
            /\ alerts[c].totalMatches = runs[1].before[c].totalMatches
                  + SumOver([r \in Started |-> MatchesCounted(runs[r], c)], Len(runs))
            /\ alerts[c].emailsSent = runs[1].before[c].emailsSent
                  + SumOver([r \in Started |-> ConfirmedSends(runs[r], c)], Len(runs))

\* C23: once enqueues stop, the processing queue becomes empty and isProcessing
\* false, and stays so.
C23_QueueEventuallyDrained == <>[](processingQueue = <<>> /\ ~isProcessing)

\* The runs of processTenderAlerts the queue loop started.
QueueRuns == { r \in Started : runs[r].job = "queue" }

\* C24: at most one queue-driven run is in flight, and only while isProcessing;
\* the records shifted so far are the first ones enqueued, in order, each
\* once; the k-th queue-driven run processes the k-th record enqueued.
C24_SingleLoopFifo ==
    /\ \A r1 \in QueueRuns, r2 \in QueueRuns :
          (InFlight(r1) /\ InFlight(r2)) => r1 = r2
    /\ \A r \in QueueRuns : InFlight(r) => isProcessing
    /\ Len(queueLoop.shifted) <= Len(queueLoop.enqueued)
    /\ queueLoop.shifted = SubSeq(queueLoop.enqueued, 1, Len(queueLoop.shifted))
    /\ queueLoop.shifted \o processingQueue = queueLoop.enqueued
    /\ Cardinality(QueueRuns) = Len(queueLoop.shifted)
    /\ \A r \in QueueRuns : runs[r].tender = queueLoop.enqueued[r]

\* Three records were enqueued; the first has been processed, the second is
\* being processed and the third, a different record, waits in the queue.
C24_Witness ==
    /\ Len(queueLoop.enqueued) = 3
    /\ queueLoop.enqueued[2] # queueLoop.enqueued[3]
    /\ Len(runs) = 2
    /\ runs[1].pc = "returned" /\ runs[1].sent # <<>>
    /\ runs[2].pc = "send"
    /\ processingQueue = <<queueLoop.enqueued[3]>>

\* The owner of a configuration may receive alerts: the user document exists
\* and its subscription has the email-alerts feature.
Entitled(u) == users[u].exists /\ users[u].emailAlerts

\* C25: no run lists a configuration of an owner who is missing or lacks the
\* email-alerts feature in a notification, sends that owner a message, or
\* changes the stats of the configuration.
C25_EntitlementRespected ==
    \A r \in Started, c \in ConfigIds :
        ~Entitled(runs[r].before[c].user) =>
            /\ ~Notified(runs[r], c)
            /\ \A m \in 1..Len(runs[r].sent) :
                  runs[r].sent[m].owner # runs[r].before[c].user
            /\ StatsOf(alerts[c]) = StatsOf(runs[r].before[c])

\* C26: every notification of a run is addressed, for every configuration it
\* lists, to the recipient override of the configuration when one is set and to
\* the address of the owner otherwise.
C26_RecipientOverride ==
    \A r \in Started :
        \A m \in 1..Len(runs[r].sent) :
            \A i \in 1..Len(runs[r].sent[m].items) :
                LET c == runs[r].sent[m].items[i].alert
                IN runs[r].sent[m].to =
                       effectiveEmail(runs[r].before[c], users[runs[r].before[c].user])

\* C27: once the scheduler is initialized, every active, email-enabled daily
\* configuration has a started daily job whose bucket is its time of day.
C27_EveryDailyTimeServed ==
    isInitialized =>
        \A c \in ConfigIds :
            (alerts[c].isActive /\ alerts[c].enabled /\ alerts[c].frequency = "daily") =>
                \E time \in DailyTimes :
                    /\ time = alerts[c].dailySummaryTime
                    /\ jobs[DailyJob(time)].state = "started"

\* The ids of the error entries of a run.
ErrorIds(run) == { run.results.errors[k].id : k \in 1..Len(run.results.errors) }

\* C28: the result a run returns counts in emailsSent every message the
\* transport accepted during the run, and has one error entry for every
\* configuration or owner whose processing failed, failed sends included.
C28_ResultCountsMatch ==
    \A r \in Started :
        runs[r].pc = "returned" =>
            /\ runs[r].results.emailsSent = Len(runs[r].sent)
            /\ Len(runs[r].results.errors) = Cardinality(ErrorIds(runs[r]))
            /\ \A k \in 1..Len(runs[r].failedSends) :
                  runs[r].failedSends[k] \in ErrorIds(runs[r])

\* The times at which run r sent a weekly digest that lists configuration c.
WeeklySendTimes(r, c) ==
    IF runs[r].mode # "weekly" THEN {}
    ELSE { runs[r].sent[m].at :
             m \in { k \in 1..Len(runs[r].sent) : ItemsOf(runs[r].sent[k], c) > 0 } }

\* C29: two weekly digests that list the same configuration are sent at least
\* 7 days apart, and a weekly run that queries less than 7 days after an
\* earlier run sent a digest listing a configuration leaves it out of its
\* cohort.
C29_WeeklyThrottle ==
    \A r1 \in Started, r2 \in Started, c \in ConfigIds :
        r1 < r2 =>
            \A at1 \in WeeklySendTimes(r1, c) :
                /\ \A at2 \in WeeklySendTimes(r2, c) : at2 - at1 >= Days(7)
                /\ (runs[r2].mode = "weekly" /\ InFlight(r2)
                       /\ runs[r2].pc # "findAlerts" /\ now < at1 + Days(7))
                      => ~InCohort(runs[r2], c)

\* A configuration was listed in the weekly digest of the first run, and the
\* second run, six days later, selected another configuration but left it out.
C29_Witness ==
    /\ Len(runs) = 2
    /\ now = NowStart + Days(6)
    /\ runs[2].mode = "weekly"
    /\ runs[2].cohort # <<>>
    /\ InFlight(2)
    /\ \E c \in ConfigIds :
          /\ NowStart \in WeeklySendTimes(1, c)
          /\ alerts[c].lastSentAt = NowStart
          /\ ~InCohort(runs[2], c)

\* C30: a user with the email-alerts feature on the enterprise plan can always
\* create a configuration, one on the professional plan exactly when owning
\* fewer than 10, and the limit message is returned only when the owned count
\* has reached a plan maximum that is a number of configurations.
C30_AlertCreationLimit ==
    creation.response # "none" =>
        /\ (creation.plan = "enterprise" /\ creation.emailAlerts)
              => creation.response = "created"
        /\ (creation.plan = "professional" /\ creation.emailAlerts)
              => (creation.response = "created" <=> creation.owned < 10)
        /\ creation.response = "limit"
              => /\ getMaxAlertsForPlan(creation.plan) >= 0
                 /\ creation.owned >= getMaxAlertsForPlan(creation.plan)

====
